---- MODULE Spec2Model ----
(***************************************************************************)
(* Model of searx/search/processors/online.py: one invocation of           *)
(* OnlineProcessor.search, with the engine adapter (engine.request,        *)
(* engine.response), the transport (searx.network.get/post) and the result *)
(* container as nondeterministic collaborators.                            *)
(*                                                                         *)
(* Spec is one invocation for an engine that leaves the request defaults   *)
(* alone; SpecEngines is the same invocation over the engines that assign  *)
(* the method, the bodies and a header; SpecThread runs one invocation     *)
(* after another on the same thread; SpecGetParams is get_params alone;    *)
(* SpecPlugin is on_result of searx/plugins/tracker_url_remover.py alone.  *)
(*                                                                         *)
(* Python strings are sequences of one-character strings, so that the      *)
(* substring test, the concatenations and re.match are computed.  The two  *)
(* values NoneVal and Missing are not character sequences: NoneVal is      *)
(* Python's None, Missing is "no such key / attribute".                    *)
(***************************************************************************)
EXTENDS Integers, Sequences, FiniteSets, TLC

VARIABLES
    settings,           \* settings['search']: the force-sitelink configuration
    query,              \* the query argument of search()
    params,             \* the params argument of search() (mutated in place by engine.request)
    pc,                 \* position of the invocation
    level,              \* "primary": _search_basic called by search; "nested": by _get_sitelinks
    exc,                \* the exception raised in the try block ("" when none)
    raised_by,          \* the call that raised it
    search_results,     \* local of search / _add_forced_sitelinks
    sitelink_params,    \* local of _get_sitelinks
    sitelink_results,   \* local of _get_sitelinks
    response,           \* the response _send_http_request returned, not yet parsed
    site,               \* index of the site the loop of _add_forced_sitelinks is at
    hit,                \* index of the result the inner loop matched
    calls,              \* number of calls made to each collaborator
    incidents,          \* log of the incident records (count_error, handle_exception)
    suspended,          \* TRUE once handle_exception was called with suspend=True
    nested,             \* log of the completed calls of _get_sitelinks
    container,          \* log of what extend_container merged into the result container
    engine,             \* the engine the processor wraps: its name and what its request() does
    start_time,         \* the start_time argument of search()
    timeout_limit,      \* the timeout_limit argument of search()
    invocation,         \* how many times search() was called on this thread
    thread,             \* the state searx.network keeps local to the thread search() runs on
    heap,               \* the dict objects params["headers"] can refer to
    request,            \* the last call of searx.network.get / post
    search_query,       \* the search_query argument of get_params()
    result,             \* tracker_url_remover: the result on_result is given
    returned            \* tracker_url_remover: what on_result returned (a sequence of length 0 or 1)

\* what an invocation of search() is given
arguments == << settings, query, engine, start_time, timeout_limit, invocation, search_query >>

vars == << settings, query, params, pc, level, exc, raised_by, search_results, sitelink_params,
           sitelink_results, response, site, hit, calls, incidents, suspended, nested,
           container, engine, start_time, timeout_limit, invocation, thread, heap, request,
           search_query, result, returned >>

\* the state of the online processor
processor == << settings, query, params, pc, level, exc, raised_by, search_results,
                sitelink_params, sitelink_results, response, site, hit, calls, incidents,
                suspended, nested, container, engine, start_time, timeout_limit, invocation,
                thread, heap, request, search_query >>

\* the state of the tracker_url_remover plugin
plugin == << result, returned >>

(***************************************************************************)
(* Bounds of the model.                                                    *)
(***************************************************************************)
MaxResults == 2         \* longest primary result list the parser returns
MaxSitelinkResults == 3 \* longest nested result list the parser returns
MaxHistory == 1         \* longest redirect history of a response
MaxInvocations == 2     \* most calls of search() one worker thread runs
MaxQueryParams == 2     \* most parameters of the query of a URL given to the plugin

(***************************************************************************)
(* Values.                                                                 *)
(***************************************************************************)
NoneVal == << "None" >>
Missing == << "Missing" >>

\* A list-or-None value: search_results and sitelink_results.
NoneList == [isNone |-> TRUE, list |-> << >>]
ListOf(l) == [isNone |-> FALSE, list |-> l]

Categories == { "general", "sitelinks" }

Queries == { << "s" >>, << "s", " ", "z" >>, << "s", " ", "w" >> }

\* force_sitelink_websites entries: website_url_expression is a regular
\* expression over the atoms ".*" and literal characters.
SiteA == [website_url_expression |-> << ".*", "a" >>,
          website_search_terms |-> << << "z" >> >>]
SiteB == [website_url_expression |-> << "b" >>,
          website_search_terms |-> << << "w" >>, << "z" >> >>]

SiteLists == { << >>, << SiteA >>, << SiteB >>, << SiteA, SiteB >>, << SiteB, SiteA >> }

Settings == [force_sitelinks_categories : SUBSET Categories,
             force_sitelink_websites : SiteLists]

\* Results the engine's parser produces for the primary search.
OldSitelink == [id |-> 9, url |-> << "c" >>, sitelinks |-> << >>]
PrimaryResults ==
    { [id |-> 1, url |-> << "a" >>, sitelinks |-> << OldSitelink >>],
      [id |-> 2, url |-> << "b", "a" >>, sitelinks |-> << >>],
      [id |-> 3, url |-> Missing, sitelinks |-> << >>],
      [id |-> 4, url |-> NoneVal, sitelinks |-> << >>] }

\* Results the engine's parser produces for a nested (sitelinks) search.
SitelinkResults ==
    { [id |-> 5, url |-> << "a" >>, sitelinks |-> << >>],
      [id |-> 6, url |-> Missing, sitelinks |-> << >>],
      [id |-> 7, url |-> << "a", "x" >>, sitelinks |-> << >>],
      [id |-> 8, url |-> NoneVal, sitelinks |-> << >>] }

\* The lists of at most n distinct elements of S.
RECURSIVE ListsUpTo(_, _)
ListsUpTo(S, n) ==
    IF n = 0 THEN { << >> }
    ELSE LET shorter == ListsUpTo(S, n - 1)
         IN  shorter \cup
             { Append(l, x) : l \in { m \in shorter : Len(m) = n - 1 }, x \in S }

Distinct(l) == \A i, j \in DOMAIN l : l[i] = l[j] => i = j

PrimaryLists == { l \in ListsUpTo(PrimaryResults, MaxResults) : Distinct(l) }
SitelinkLists == { l \in ListsUpTo(SitelinkResults, MaxSitelinkResults) : Distinct(l) }

\* The url engine.request sets for a search it supports.
EngineUrl == << "u" >>

\* A headers dict: each name has a value or is Missing.
HeaderNames == { "User-Agent", "Accept-Language", "Referer" }
NoHeaders == [h \in HeaderNames |-> Missing]

\* The engine: its name, and what its request(query, params) does to params:
\* the method and the bodies it assigns, and how it sets a header: "none",
\* "in_place" (params['headers']['Referer'] = ...) or "rebind"
\* (params['headers'] = {...}).
Methods == { "GET", "POST" }
Bodies == [data : { << >>, << "d" >> }, json : { << >>, << "j" >> },
           content : { << >>, << "c" >> }]
HeaderStyles == { "none", "in_place", "rebind" }
EngineNames == { "e1", "e2" }

EngineOf(name, method, body, style) ==
    [name |-> name, send_accept_language_header |-> TRUE, method |-> method,
     data |-> body.data, json |-> body.json, content |-> body.content, headers |-> style]

NoBody == [data |-> << >>, json |-> << >>, content |-> << >>]

\* an engine that leaves the defaults of default_request_params alone
PlainEngine == EngineOf("e1", "GET", NoBody, "none")

\* the engines that assign the method and the bodies
BodyEngines == { EngineOf("e1", m, b, "none") : m \in Methods, b \in Bodies }

\* the engines that set a header
HeaderEngines == { EngineOf("e1", "GET", NoBody, h) : h \in HeaderStyles }

\* search_query.locale: a sequence of length 0 (None) or 1 (a locale with a
\* language and a territory, which may be None)
Languages == { << "e", "n" >>, << "f", "r" >> }
Territories == { << "U", "S" >>, << "C", "A" >> }
Locales ==
    { << >> } \cup { << l >> : l \in [language : Languages, territory : Territories \cup { NoneVal }] }

\* what gen_useragent() returns
UserAgents == { << "ua" >>, << "ub" >> }

\* the arguments search() is called with on one thread
StartTimes == { 10, 20 }
TimeoutLimits == { 3, 5 }

(***************************************************************************)
(* The exceptions the collaborators raise, with their base classes.        *)
(***************************************************************************)
\* by searx.network.get / post
TransportRaises ==
    { "ssl.SSLCertVerificationError", "httpx.ConnectTimeout", "asyncio.TimeoutError",
      "httpx.HTTPStatusError", "httpx.StreamClosed", "SearxEngineTooManyRequestsException" }

\* by engine.request and engine.response
EngineRaises ==
    { "SearxEngineCaptchaException", "SearxEngineAccessDeniedException",
      "SearxEngineAPIException", "KeyError" }

\* by extend_container
ContainerRaises == { "TypeError" }

ExceptionBase(c) ==
    CASE c = "ssl.SSLCertVerificationError" -> "ssl.SSLError"
      [] c = "httpx.ConnectTimeout" -> "httpx.TimeoutException"
      [] c = "httpx.TimeoutException" -> "httpx.HTTPError"
      [] c = "httpx.HTTPStatusError" -> "httpx.HTTPError"
      [] c = "httpx.StreamClosed" -> "httpx.StreamError"
      [] c = "SearxEngineCaptchaException" -> "SearxEngineAccessDeniedException"
      [] c = "SearxEngineTooManyRequestsException" -> "SearxEngineAccessDeniedException"
      [] c = "SearxEngineAccessDeniedException" -> "SearxEngineResponseException"
      [] c = "SearxEngineAPIException" -> "SearxEngineResponseException"
      [] OTHER -> "Exception"

RECURSIVE isinstance(_, _)
isinstance(c, cls) ==
    \/ c = cls
    \/ c # "Exception" /\ isinstance(ExceptionBase(c), cls)

(***************************************************************************)
(* String helpers: Python's `in` on strings and re.match.                  *)
(***************************************************************************)
\* t in s
Contains(s, t) ==
    \E i \in 0 .. (Len(s) - Len(t)) : SubSeq(s, i + 1, i + Len(t)) = t

\* re.match(pat, s): the pattern matches at the beginning of s (not
\* necessarily all of it).  "(" and ")" delimit a group and consume nothing;
\* the atoms are ".*", "[^&]*", "[^&]+", "$" and the literal characters.
RECURSIVE re_match(_, _)
re_match(pat, s) ==
    IF pat = << >> THEN TRUE
    ELSE IF Head(pat) \in { "(", ")" } THEN re_match(Tail(pat), s)
    ELSE IF Head(pat) = ".*"
         THEN \E k \in 0 .. Len(s) : re_match(Tail(pat), SubSeq(s, k + 1, Len(s)))
    ELSE IF Head(pat) \in { "[^&]*", "[^&]+" }
         THEN \E k \in (IF Head(pat) = "[^&]+" THEN 1 ELSE 0) .. Len(s) :
                 /\ \A i \in 1 .. k : s[i] # "&"
                 /\ re_match(Tail(pat), SubSeq(s, k + 1, Len(s)))
    ELSE IF Head(pat) = "$" THEN s = << >> /\ re_match(Tail(pat), s)
    ELSE s # << >> /\ Head(s) = Head(pat) /\ re_match(Tail(pat), Tail(s))

(***************************************************************************)
(* searx/plugins/tracker_url_remover.py                                    *)
(***************************************************************************)
\* regexes: each compiled pattern is the set of its alternatives
regexes ==
    { { << "u", "t", "m", "_", "[^&]+" >> },
      { << "(", "w", "k", "e", "y", ")", "[^&]*" >>,
        << "(", "w", "e", "m", "a", "i", "l", ")", "[^&]*" >> },
      { << "(", "_", "h", "s", "e", "n", "c", ")", "[^&]*" >>,
        << "(", "_", "h", "s", "m", "i", ")", "[^&]*" >>,
        << "(", "h", "s", "C", "t", "a", "T", "r", "a", "c", "k", "i", "n", "g", ")", "[^&]*" >>,
        << "(", "_", "_", "h", "s", "s", "c", ")", "[^&]*" >>,
        << "(", "_", "_", "h", "s", "t", "c", ")", "[^&]*" >>,
        << "(", "_", "_", "h", "s", "f", "p", ")", "[^&]*" >> },
      { << "(", "t", "l", ")", "[^&]*" >> },
      { << "&", "$" >> } }

\* some reg of regexes has reg.match(param_name)
MatchesTracker(param_name) ==
    \E reg \in regexes : \E alternative \in reg : re_match(alternative, param_name)

\* s.split(sep)
RECURSIVE Split(_, _)
Split(s, sep) ==
    IF \A i \in DOMAIN s : s[i] # sep THEN << s >>
    ELSE LET i == CHOOSE k \in DOMAIN s : s[k] = sep /\ \A j \in 1 .. k - 1 : s[j] # sep
         IN  << SubSeq(s, 1, i - 1) >> \o Split(SubSeq(s, i + 1, Len(s)), sep)

\* name_value.split('=', 1), with a blank value when there is no '='
NameValue(piece) ==
    IF \A i \in DOMAIN piece : piece[i] # "=" THEN << piece, << >> >>
    ELSE LET i == CHOOSE k \in DOMAIN piece :
                     piece[k] = "=" /\ \A j \in 1 .. k - 1 : piece[j] # "="
         IN  << SubSeq(piece, 1, i - 1), SubSeq(piece, i + 1, Len(piece)) >>

\* unquote(s.replace('+', ' ')) and quote_plus(s), on strings without '%'
\* and with no other character to escape
unquote_plus(s) == [i \in DOMAIN s |-> IF s[i] = "+" THEN " " ELSE s[i]]
quote_plus(s) == [i \in DOMAIN s |-> IF s[i] = " " THEN "+" ELSE s[i]]

HasValue(name_value) == name_value[2] # << >>

\* urllib.parse.parse_qsl(qs): keep_blank_values is False, so the parameters
\* with a blank value are left out
parse_qsl(qs) ==
    LET pieces == Split(qs, "&")
        pairs == SelectSeq([i \in DOMAIN pieces |-> NameValue(pieces[i])], HasValue)
    IN  [i \in DOMAIN pairs |-> << unquote_plus(pairs[i][1]), unquote_plus(pairs[i][2]) >>]

\* urllib.parse.urlencode(query)
RECURSIVE urlencode(_)
urlencode(parsed_query) ==
    IF parsed_query = << >> THEN << >>
    ELSE quote_plus(Head(parsed_query)[1]) \o << "=" >> \o quote_plus(Head(parsed_query)[2])
         \o (IF Len(parsed_query) > 1 THEN << "&" >> \o urlencode(Tail(parsed_query))
             ELSE << >>)

\* urllib.parse.urlunparse(parsed_url): the part before the query, then "?"
\* and the query when there is one
urlunparse(parsed_url) ==
    IF parsed_url.query = << >> THEN parsed_url.path
    ELSE parsed_url.path \o << "?" >> \o parsed_url.query

\* list.remove(x): without the first element equal to x
Remove(l, x) ==
    LET i == CHOOSE k \in DOMAIN l : l[k] = x /\ \A j \in 1 .. k - 1 : l[j] # x
    IN  SubSeq(l, 1, i - 1) \o SubSeq(l, i + 1, Len(l))

\* the loop of _clear_trackers over the copy of parsed_query
RECURSIVE ClearLoop(_, _, _)
ClearLoop(copy, parsed_query, res) ==
    IF copy = << >> THEN res
    ELSE IF MatchesTracker(Head(copy)[1])
    THEN LET shorter == Remove(parsed_query, Head(copy))
             parsed_url == [Head(res.parsed_url) EXCEPT !.query = urlencode(shorter)]
         IN  ClearLoop(Tail(copy), shorter,
                       [res EXCEPT !.parsed_url = << parsed_url >>,
                                   !.url = urlunparse(parsed_url)])
    ELSE ClearLoop(Tail(copy), parsed_query, res)

\* _clear_trackers(result); parsed_url is a sequence of length 0 (None) or 1
_clear_trackers(res) ==
    IF res.parsed_url = << >> THEN res
    ELSE ClearLoop(parse_qsl(Head(res.parsed_url).query),
                   parse_qsl(Head(res.parsed_url).query), res)

\* The results given to the plugin.  A query parameter as it stands in a URL:
RawParameters ==
    { << "u", "t", "m", "_", "s", "=", "1" >>,
      << "u", "t", "m", "_", "s", "=" >>,
      << "t", "l", "x", "=", "2" >>,
      << "q", "=", "a", "+", "b" >>,
      << "q", "=" >>,
      << "i", "d", "=", "7" >> }

RECURSIVE JoinQuery(_)
JoinQuery(l) ==
    IF l = << >> THEN << >>
    ELSE Head(l) \o (IF Len(l) > 1 THEN << "&" >> \o JoinQuery(Tail(l)) ELSE << >>)

RawQueries == { JoinQuery(l) : l \in ListsUpTo(RawParameters, MaxQueryParams) }

\* a result (or a sitelink) whose url was parsed, and one whose url was not
ParsedUrls == { [path |-> << "h" >>, query |-> q] : q \in RawQueries }
PluginUrls ==
    { [parsed_url |-> << u >>, url |-> urlunparse(u)] : u \in ParsedUrls }
    \cup { [parsed_url |-> << >>, url |-> << "h", "?", "u", "t", "m", "_", "s", "=", "1" >>] }

PluginResults ==
    { [parsed_url |-> u.parsed_url, url |-> u.url, sitelinks |-> l] :
         u \in PluginUrls, l \in { << >> } \cup { << v >> : v \in PluginUrls } }

NoResult == [parsed_url |-> << >>, url |-> << >>, sitelinks |-> << >>]

(***************************************************************************)
(* OnlineProcessor._get_property                                           *)
(***************************************************************************)
_get_property(thing, key, default) ==
    IF thing[key] = Missing THEN default ELSE thing[key]

(***************************************************************************)
(* OnlineProcessor._send_http_request: the soft limit of the redirects     *)
(***************************************************************************)
\* params.get("soft_max_redirects", max_redirects or 0); the key is a
\* sequence of length 0 (absent) or 1 (present)
soft_max_redirects(p) ==
    IF p.soft_max_redirects # << >> THEN Head(p.soft_max_redirects) ELSE p.max_redirects

\* the comparison off by one
OverSoftLimit_OffByOne(history, soft) == history > soft + 1

\* len(response.history) > soft_max_redirects
OverSoftLimit(history, soft) == history > soft

\* count_error called without secondary=True
SoftLimitIncident_NotSecondary(history, soft) ==
    [source |-> "count_error", secondary |-> FALSE, exception |-> "", suspend |-> FALSE,
     message |-> << history, soft >>]

\* the count_error(..., secondary=True) call
SoftLimitIncident(history, soft) ==
    [source |-> "count_error", secondary |-> TRUE, exception |-> "", suspend |-> FALSE,
     message |-> << history, soft >>]

(***************************************************************************)
(* OnlineProcessor._send_http_request: the call of searx.network           *)
(***************************************************************************)
\* the bodies chosen by precedence: the first non-empty one only
RequestBodies_FirstNonEmpty(p) ==
    [data |-> IF p.method # "GET" /\ p.data # << >> THEN p.data ELSE Missing,
     json |-> IF p.method # "GET" /\ p.data = << >> /\ p.json # << >> THEN p.json ELSE Missing,
     content |-> IF p.method # "GET" /\ p.data = << >> /\ p.json = << >> /\ p.content # << >>
                 THEN p.content ELSE Missing]

\* request_args["data"], ["json"], ["content"]: Missing when the key is not set
RequestBodies(p) ==
    [data |-> IF p.method # "GET" /\ p.data # << >> THEN p.data ELSE Missing,
     json |-> IF p.method # "GET" /\ p.json # << >> THEN p.json ELSE Missing,
     content |-> IF p.method # "GET" /\ p.content # << >> THEN p.content ELSE Missing]

\* req(params["url"], **request_args)
RequestOf(p) ==
    [req |-> IF p.method = "GET" THEN "get" ELSE "post", url |-> p.url,
     data |-> RequestBodies(p).data, json |-> RequestBodies(p).json,
     content |-> RequestBodies(p).content, headers |-> heap[p.headers]]

NoRequest == [req |-> "", url |-> << >>, data |-> Missing, json |-> Missing,
              content |-> Missing, headers |-> NoHeaders]

(***************************************************************************)
(* OnlineProcessor.init_network_in_thread                                  *)
(***************************************************************************)
\* a thread searx.network has not been used on
FreshThread == [timeout |-> NoneVal, start_time |-> NoneVal, total_time |-> 0,
                network |-> NoneVal]

\* without reset_time_for_thread()
init_network_in_thread_NoReset(th, start, limit) ==
    [th EXCEPT !.timeout = limit, !.start_time = start, !.network = engine.name]

\* set_timeout_for_thread(timeout_limit, start_time=start_time);
\* reset_time_for_thread(); set_context_network_name(self.engine.name)
init_network_in_thread(th, start, limit) ==
    [th EXCEPT !.timeout = limit, !.start_time = start, !.total_time = 0,
               !.network = engine.name]

(***************************************************************************)
(* OnlineProcessor.search: the except clauses, in order                    *)
(***************************************************************************)
\* the timeout clause written without suspend=True
ExceptClauses_TimeoutNotSuspended ==
    << [classes |-> { "ssl.SSLError" }, suspend |-> TRUE],
       [classes |-> { "httpx.TimeoutException", "asyncio.TimeoutError" }, suspend |-> FALSE],
       [classes |-> { "httpx.HTTPError", "httpx.StreamError" }, suspend |-> TRUE],
       [classes |-> { "SearxEngineCaptchaException", "SearxEngineTooManyRequestsException",
                      "SearxEngineAccessDeniedException" }, suspend |-> TRUE],
       [classes |-> { "Exception" }, suspend |-> FALSE] >>

\* the chain without its last, broad clause
ExceptClauses_NoBroadClause ==
    << [classes |-> { "ssl.SSLError" }, suspend |-> TRUE],
       [classes |-> { "httpx.TimeoutException", "asyncio.TimeoutError" }, suspend |-> TRUE],
       [classes |-> { "httpx.HTTPError", "httpx.StreamError" }, suspend |-> TRUE],
       [classes |-> { "SearxEngineCaptchaException", "SearxEngineTooManyRequestsException",
                      "SearxEngineAccessDeniedException" }, suspend |-> TRUE] >>

ExceptClauses ==
    << [classes |-> { "ssl.SSLError" }, suspend |-> TRUE],
       [classes |-> { "httpx.TimeoutException", "asyncio.TimeoutError" }, suspend |-> TRUE],
       [classes |-> { "httpx.HTTPError", "httpx.StreamError" }, suspend |-> TRUE],
       [classes |-> { "SearxEngineCaptchaException", "SearxEngineTooManyRequestsException",
                      "SearxEngineAccessDeniedException" }, suspend |-> TRUE],
       [classes |-> { "Exception" }, suspend |-> FALSE] >>

\* the clauses that match exception e; Python runs the first of them
Catching(e) ==
    { k \in DOMAIN ExceptClauses : \E c \in ExceptClauses[k].classes : isinstance(e, c) }

FirstClause(e) == CHOOSE k \in Catching(e) : \A m \in Catching(e) : k <= m

\* what EngineProcessor.handle_exception records
HandledIncident(e, suspend) ==
    [source |-> "handle_exception", secondary |-> FALSE, exception |-> e,
     suspend |-> suspend, message |-> << >>]

(***************************************************************************)
(* OnlineProcessor.search: the force-sitelinks condition                   *)
(***************************************************************************)
ForceSitelinks ==
    /\ Cardinality(settings.force_sitelinks_categories) > 0
    /\ Len(settings.force_sitelink_websites) > 0

(***************************************************************************)
(* OnlineProcessor._add_forced_sitelinks                                   *)
(***************************************************************************)
\* the query tested for the first search term only
SiteSkipped_FirstTermOnly(s, p) ==
    \/ p.category \notin settings.force_sitelinks_categories
    \/ Contains(p.query, s.website_search_terms[1])

\* the two `continue` conditions of the outer loop
SiteSkipped(s, p) ==
    \/ p.category \notin settings.force_sitelinks_categories
    \/ \E k \in DOMAIN s.website_search_terms : Contains(p.query, s.website_search_terms[k])

Expression(s) == << "(" >> \o s.website_url_expression \o << ")" >>

\* the inner loop without its break: the last matching result is the one left enriched
ScanResults_NoBreak(results, expression, j) ==
    LET matching == { i \in j .. Len(results) :
                        /\ _get_property(results[i], "url", << >>) # NoneVal
                        /\ re_match(expression, _get_property(results[i], "url", << >>)) }
    IN  IF \E i \in j .. Len(results) : _get_property(results[i], "url", << >>) = NoneVal
        THEN -1
        ELSE IF matching = { } THEN 0
        ELSE CHOOSE i \in matching : \A m \in matching : m <= i

\* The inner loop from result j on: the index of the first result whose url
\* matches, 0 when the loop ends without a match, -1 when re.match raises
\* TypeError because the url it is given is None.
RECURSIVE ScanResults(_, _, _)
ScanResults(results, expression, j) ==
    IF j > Len(results) THEN 0
    ELSE LET url == _get_property(results[j], "url", << >>)
         IN  IF url = NoneVal THEN -1
             ELSE IF re_match(expression, url) THEN j
             ELSE ScanResults(results, expression, j + 1)

(***************************************************************************)
(* OnlineProcessor._get_sitelinks                                          *)
(***************************************************************************)
\* params.copy() with the query and the category replaced; the copy is
\* shallow: its "headers" is the reference the original holds
SitelinkParams(p, search_term) ==
    [p EXCEPT !.query = p.query \o << " " >> \o search_term,
              !.category = "sitelinks"]

\* the first result kept
DropFirst_Kept(l) == l

\* del sitelink_results[0] when the list is not empty
DropFirst(l) == IF Len(l) > 0 THEN SubSeq(l, 2, Len(l)) ELSE l

\* filter(lambda result: _get_property(result, "url") is not None, ...)
HasUrl(r) == _get_property(r, "url", NoneVal) # NoneVal

PostProcess(l) == SelectSeq(DropFirst(l), HasUrl)

(***************************************************************************)
(* The state after construction: search() has not been called yet.         *)
(***************************************************************************)
NoParams == [query |-> << >>, category |-> "", url |-> << >>,
             max_redirects |-> 0, soft_max_redirects |-> << >>,
             method |-> "GET", data |-> << >>, json |-> << >>, content |-> << >>,
             headers |-> 0]

\* max_redirects / soft_max_redirects as the engine's base parameters give them
RedirectParams ==
    { [max_redirects |-> 0, soft_max_redirects |-> << 0 >>],
      [max_redirects |-> 1, soft_max_redirects |-> << >>] }

(***************************************************************************)
(* OnlineProcessor.get_params                                              *)
(***************************************************************************)
\* the header that leaves the territory out
ac_lang_LanguageOnly(locale) == locale.language

\* ac_lang: "%s-%s,%s;q=0.9,*;q=0.5" % (language, territory, language)
\* when the locale has a territory, the language otherwise
ac_lang(locale) ==
    IF locale.territory # NoneVal
    THEN locale.language \o << "-" >> \o locale.territory \o << "," >> \o locale.language
         \o << ";", "q", "=", "0", ".", "9", ",", "*", ";", "q", "=", "0", ".", "5" >>
    ELSE locale.language

\* params['headers'] when get_params returns
BuiltHeaders(sq, useragent) ==
    [NoHeaders EXCEPT
        !["User-Agent"] = useragent,
        !["Accept-Language"] = IF engine.send_accept_language_header /\ sq.locale # << >>
                               THEN ac_lang(Head(sq.locale))
                               ELSE @]

\* the params get_params built for query q in category c: the values of
\* default_request_params, the redirect limits r of the engine; "headers"
\* refers to object 1 of the heap
ParamsOf(q, c, r) ==
    [query |-> q, category |-> c, url |-> << >>,
     max_redirects |-> r.max_redirects,
     soft_max_redirects |-> r.soft_max_redirects,
     method |-> "GET", data |-> << >>, json |-> << >>, content |-> << >>,
     headers |-> 1]

\* the heap when search() is called: the headers get_params filled in
Objects == 1 .. 3
InitialHeap ==
    [o \in Objects |-> IF o = 1 THEN [NoHeaders EXCEPT !["User-Agent"] = << "ua" >>]
                       ELSE NoHeaders]

\* nothing called yet: the locals, the logs
Quiet ==
    /\ level = "primary"
    /\ exc = ""
    /\ raised_by = ""
    /\ search_results = NoneList
    /\ sitelink_params = NoParams
    /\ sitelink_results = NoneList
    /\ response = << >>
    /\ site = 0
    /\ hit = 0
    /\ calls = [request |-> 0, transport |-> 0, response |-> 0, extend |-> 0,
                handle_exception |-> 0]
    /\ incidents = << >>
    /\ suspended = FALSE
    /\ nested = << >>
    /\ container = << >>
    /\ request = NoRequest

\* get_params returned, search() not called yet: everything else than their arguments
Idle ==
    /\ pc = "idle"
    /\ heap = InitialHeap
    /\ Quiet

\* the plugin was given no result
PluginIdle ==
    /\ result = NoResult
    /\ returned = << >>

\* what get_params is given in the runs that start at search()
NoLocale == [query |-> query, locale |-> << >>]

Init ==
    /\ settings \in Settings
    /\ query \in Queries
    /\ search_query = NoLocale
    /\ \E c \in Categories, r \in RedirectParams : params = ParamsOf(query, c, r)
    /\ engine = PlainEngine
    /\ start_time = 10
    /\ timeout_limit = 3
    /\ invocation = 1
    /\ thread = FreshThread
    /\ Idle
    /\ PluginIdle

(***************************************************************************)
(* Control transfers.                                                      *)
(***************************************************************************)
\* The params _search_basic works on: search's, or _get_sitelinks' copy.
Current == IF level = "primary" THEN params ELSE sitelink_params

\* An exception leaves the try block of search: the locals of the frames it
\* unwinds are dead.
Raise(e, where) ==
    /\ pc' = "except"
    /\ exc' = e
    /\ raised_by' = where
    /\ level' = "primary"
    /\ search_results' = NoneList
    /\ sitelink_params' = NoParams
    /\ sitelink_results' = NoneList
    /\ response' = << >>
    /\ site' = 0
    /\ hit' = 0

\* _search_basic returns v to its caller: search (line 252, then the
\* condition of lines 255-256) or _get_sitelinks (line 328).
Return(v) ==
    IF level = "primary"
    THEN /\ search_results' = v
         /\ pc' = IF ForceSitelinks THEN "enrich" ELSE "extend"
         /\ site' = IF ForceSitelinks THEN 1 ELSE 0
         /\ UNCHANGED sitelink_results
    ELSE /\ sitelink_results' = v
         /\ pc' = "postprocess"
         /\ UNCHANGED << search_results, site >>

(***************************************************************************)
(* OnlineProcessor.search, up to the call of engine.request                *)
(***************************************************************************)
search ==
    /\ pc = "idle"
    /\ pc' = "request"
    /\ level' = "primary"
    /\ thread' = init_network_in_thread(thread, start_time, timeout_limit)
    /\ UNCHANGED << heap, request >>
    /\ UNCHANGED << arguments, plugin, params, exc, raised_by, search_results, sitelink_params,
                    sitelink_results, response, site, hit, calls,
                    incidents, suspended, nested, container >>

(***************************************************************************)
(* _search_basic: engine.request(query, params) and the empty-url test     *)
(***************************************************************************)
\* the object a rebinding engine.request makes params["headers"] refer to
NewHeaders == IF level = "primary" THEN 2 ELSE 3

\* what engine.request(query, p) makes of the dict p, setting the url u
RequestParams(p, u) ==
    [p EXCEPT !.url = u, !.method = engine.method, !.data = engine.data,
              !.json = engine.json, !.content = engine.content,
              !.headers = IF engine.headers = "rebind" THEN NewHeaders ELSE @]

\* ... and of the objects p refers to
RequestHeap(p) ==
    CASE engine.headers = "in_place" -> [heap EXCEPT ![p.headers]["Referer"] = p.query]
      [] engine.headers = "rebind" ->
            [heap EXCEPT ![NewHeaders] = [heap[p.headers] EXCEPT !["Referer"] = p.query]]
      [] OTHER -> heap

engine_request ==
    /\ pc = "request"
    /\ calls' = [calls EXCEPT !.request = @ + 1]
    /\ UNCHANGED << arguments, plugin, incidents, suspended, nested,
                    container >>
    /\ UNCHANGED << thread, request >>
    /\ \/ \E e \in EngineRaises :
             /\ Raise(e, "engine.request")
             /\ UNCHANGED << params, heap >>
       \/ \E u \in { << >>, EngineUrl, Current.url } :
             /\ IF level = "primary"
                THEN params' = RequestParams(params, u) /\ UNCHANGED sitelink_params
                ELSE sitelink_params' = RequestParams(sitelink_params, u)
                     /\ UNCHANGED params
             /\ heap' = RequestHeap(Current)
             /\ IF u = << >>
                THEN Return(NoneList)
                ELSE pc' = "send" /\ UNCHANGED << search_results, sitelink_results, site >>
             /\ UNCHANGED << level, exc, raised_by, response, hit >>

(***************************************************************************)
(* OnlineProcessor._send_http_request                                      *)
(***************************************************************************)
_send_http_request ==
    /\ pc = "send"
    /\ calls' = [calls EXCEPT !.transport = @ + 1]
    /\ UNCHANGED << arguments, plugin, params, suspended, nested, container, heap >>
    /\ request' = RequestOf(Current)
    /\ thread' = [thread EXCEPT !.total_time = @ + 1]
    /\ \/ \E e \in TransportRaises :
             /\ Raise(e, "transport")
             /\ UNCHANGED incidents
       \/ \E h \in 0 .. MaxHistory :
             LET soft == soft_max_redirects(Current)
             IN  /\ response' = << [history |-> h] >>
                 /\ incidents' = IF OverSoftLimit(h, soft)
                                 THEN Append(incidents, SoftLimitIncident(h, soft))
                                 ELSE incidents
                 /\ pc' = "parse"
                 /\ UNCHANGED << level, exc, raised_by, search_results, sitelink_params,
                                 sitelink_results, site, hit >>

(***************************************************************************)
(* _search_basic: engine.response(response)                                *)
(***************************************************************************)
engine_response ==
    /\ pc = "parse"
    /\ UNCHANGED << thread, heap, request >>
    /\ calls' = [calls EXCEPT !.response = @ + 1]
    /\ UNCHANGED << arguments, plugin, params, incidents, suspended, nested,
                    container >>
    /\ \/ \E e \in EngineRaises : Raise(e, "engine.response")
       \/ \E l \in (IF level = "primary" THEN PrimaryLists ELSE SitelinkLists) :
             /\ Return(ListOf(l))
             /\ response' = << >>
             /\ UNCHANGED << level, exc, raised_by, sitelink_params, hit >>

(***************************************************************************)
(* OnlineProcessor._add_forced_sitelinks: one pass of the loop over the    *)
(* sites, up to the call of _search_basic in _get_sitelinks                *)
(***************************************************************************)
_add_forced_sitelinks ==
    /\ pc = "enrich"
    /\ UNCHANGED << thread, heap, request >>
    /\ UNCHANGED << arguments, plugin, params, calls, incidents,
                    suspended, container >>
    /\ IF site > Len(settings.force_sitelink_websites)
       THEN \* return search_results
            /\ pc' = "extend"
            /\ site' = 0
            /\ UNCHANGED << level, exc, raised_by, search_results, sitelink_params, sitelink_results,
                            response, hit, nested >>
       ELSE LET s == settings.force_sitelink_websites[site]
                j == ScanResults(search_results.list, Expression(s), 1)
            IN  IF SiteSkipped(s, params)
                THEN /\ site' = site + 1
                     /\ UNCHANGED << pc, level, exc, raised_by, search_results, sitelink_params,
                                     sitelink_results, response, hit, nested >>
                ELSE IF search_results.isNone \/ j = -1
                THEN \* iterating None, or re.match given None
                     /\ Raise("TypeError", "_add_forced_sitelinks")
                     /\ UNCHANGED nested
                ELSE IF j = 0
                THEN /\ site' = site + 1
                     /\ UNCHANGED << pc, level, exc, raised_by, search_results, sitelink_params,
                                     sitelink_results, response, hit, nested >>
                ELSE \* _get_sitelinks(params, site['website_search_terms'][0])
                     /\ hit' = j
                     /\ sitelink_params' = SitelinkParams(params, s.website_search_terms[1])
                     /\ nested' = Append(nested,
                            [site |-> site, hit |-> j,
                             query |-> SitelinkParams(params, s.website_search_terms[1]).query,
                             category |->
                                 SitelinkParams(params, s.website_search_terms[1]).category,
                             done |-> FALSE])
                     /\ level' = "nested"
                     /\ pc' = "request"
                     /\ UNCHANGED << exc, raised_by, search_results, sitelink_results, response, site >>

(***************************************************************************)
(* OnlineProcessor._get_sitelinks, from the return of _search_basic, and   *)
(* the assignment result["sitelinks"] = ... of _add_forced_sitelinks       *)
(***************************************************************************)
\* _get_sitelinks returning into a loop that looks at the same site again
_get_sitelinks_SameSite ==
    /\ pc = "postprocess"
    /\ UNCHANGED << thread, heap, request >>
    /\ UNCHANGED << arguments, plugin, params, calls, incidents, suspended, container >>
    /\ search_results' =
          [search_results EXCEPT !.list[hit].sitelinks = PostProcess(sitelink_results.list)]
    /\ nested' = [nested EXCEPT ![Len(nested)].done = TRUE]
    /\ sitelink_params' = NoParams
    /\ sitelink_results' = NoneList
    /\ hit' = 0
    /\ level' = "primary"
    /\ pc' = "enrich"
    /\ UNCHANGED << exc, raised_by, response, site >>

_get_sitelinks ==
    /\ pc = "postprocess"
    /\ UNCHANGED << thread, heap, request >>
    /\ UNCHANGED << arguments, plugin, params, calls, incidents,
                    suspended, container >>
    /\ IF sitelink_results.isNone
       THEN \* len(sitelink_results) of line 330
            /\ Raise("TypeError", "_get_sitelinks")
            /\ UNCHANGED nested
       ELSE /\ search_results' =
                  [search_results EXCEPT
                      !.list[hit].sitelinks = PostProcess(sitelink_results.list)]
            /\ nested' = [nested EXCEPT ![Len(nested)].done = TRUE]
            /\ sitelink_params' = NoParams
            /\ sitelink_results' = NoneList
            /\ hit' = 0
            /\ site' = site + 1
            /\ level' = "primary"
            /\ pc' = "enrich"
            /\ UNCHANGED << exc, raised_by, response >>

(***************************************************************************)
(* OnlineProcessor.search: extend_container(result_container, start_time,  *)
(* search_results)                                                         *)
(***************************************************************************)
extend_container ==
    /\ pc = "extend"
    /\ UNCHANGED << thread, heap, request >>
    /\ calls' = [calls EXCEPT !.extend = @ + 1]
    /\ UNCHANGED << arguments, plugin, params, incidents, suspended,
                    nested >>
    /\ \/ \E e \in ContainerRaises :
             /\ Raise(e, "extend_container")
             /\ UNCHANGED container
       \/ /\ container' = Append(container, search_results)
          /\ pc' = "done"
          /\ search_results' = NoneList
          /\ UNCHANGED << level, exc, raised_by, sitelink_params, sitelink_results, response, site,
                          hit >>

(***************************************************************************)
(* OnlineProcessor.search: the except clauses                              *)
(***************************************************************************)
\* the except clauses followed by a call of extend_container
except_ThenExtend ==
    /\ pc = "except"
    /\ UNCHANGED << thread, heap, request >>
    /\ Catching(exc) # { }
    /\ calls' = [calls EXCEPT !.handle_exception = @ + 1, !.extend = @ + 1]
    /\ incidents' = Append(incidents,
           HandledIncident(exc, ExceptClauses[FirstClause(exc)].suspend))
    /\ suspended' = (suspended \/ ExceptClauses[FirstClause(exc)].suspend)
    /\ container' = Append(container, search_results)
    /\ pc' = "done"
    /\ UNCHANGED << arguments, plugin, params, level, exc, raised_by, search_results,
                    sitelink_params, sitelink_results, response, site, hit, nested >>

\* the call self.handle_exception(result_container, e, suspend=...): the
\* log keeps the call as the incident it records
handle_exception(e, suspend) ==
    /\ calls' = [calls EXCEPT !.handle_exception = @ + 1]
    /\ incidents' = Append(incidents, HandledIncident(e, suspend))
    /\ suspended' = (suspended \/ suspend)

except ==
    /\ pc = "except"
    /\ UNCHANGED << thread, heap, request >>
    /\ UNCHANGED << arguments, plugin, params, level, exc, raised_by, search_results, sitelink_params,
                    sitelink_results, response, site, hit, nested,
                    container >>
    /\ IF Catching(exc) = { }
       THEN \* no clause matches: the exception leaves search
            /\ pc' = "propagated"
            /\ UNCHANGED << calls, incidents, suspended >>
       ELSE /\ handle_exception(exc, ExceptClauses[FirstClause(exc)].suspend)
            /\ pc' = "done"

(***************************************************************************)
(* OnlineProcessor.get_params, called before search()                      *)
(***************************************************************************)
get_params ==
    /\ pc = "new"
    /\ UNCHANGED << arguments, plugin, level, exc, raised_by, search_results, sitelink_params,
                    sitelink_results, response, site, hit, calls, incidents, suspended,
                    nested, container, thread, request >>
    /\ \/ \* super().get_params(...) returned None: so does get_params
          /\ pc' = "skipped"
          /\ UNCHANGED << params, heap >>
       \/ \E c \in Categories, r \in RedirectParams, useragent \in UserAgents :
             /\ params' = ParamsOf(search_query.query, c, r)
             /\ heap' = [heap EXCEPT ![params'.headers] = BuiltHeaders(search_query, useragent)]
             /\ pc' = "idle"

Next ==
    \/ search
    \/ engine_request
    \/ _send_http_request
    \/ engine_response
    \/ _add_forced_sitelinks
    \/ _get_sitelinks
    \/ extend_container
    \/ except

Spec == Init /\ [][Next]_vars

(***************************************************************************)
(* search() over the engines: what engine.request assigns to the method,   *)
(* the bodies and the headers of the params it is given.                   *)
(***************************************************************************)
EngineSettings ==
    { [force_sitelinks_categories |-> { }, force_sitelink_websites |-> << >>],
      [force_sitelinks_categories |-> { "general" },
       force_sitelink_websites |-> << SiteB, SiteA >>] }

InitEngines ==
    /\ settings \in EngineSettings
    /\ query \in Queries
    /\ search_query = NoLocale
    /\ params = ParamsOf(query, "general", [max_redirects |-> 1, soft_max_redirects |-> << >>])
    /\ engine \in BodyEngines \cup HeaderEngines
    /\ start_time = 10
    /\ timeout_limit = 3
    /\ invocation = 1
    /\ thread = FreshThread
    /\ Idle
    /\ PluginIdle

SpecEngines == InitEngines /\ [][Next]_vars

(***************************************************************************)
(* One worker thread that runs search() for one engine after another: the  *)
(* state of searx.network local to the thread outlives an invocation.      *)
(***************************************************************************)
ThreadEngines == { [PlainEngine EXCEPT !.name = n] : n \in EngineNames }

InitThread ==
    /\ settings \in EngineSettings
    /\ query \in Queries
    /\ search_query = NoLocale
    /\ params = ParamsOf(query, "general", [max_redirects |-> 1, soft_max_redirects |-> << >>])
    /\ engine \in ThreadEngines
    /\ start_time \in StartTimes
    /\ timeout_limit \in TimeoutLimits
    /\ invocation = 1
    /\ thread = FreshThread
    /\ Idle
    /\ PluginIdle

\* search() has returned; the thread is given another engine's search, later
next_invocation ==
    /\ pc = "done"
    /\ invocation < MaxInvocations
    /\ invocation' = invocation + 1
    /\ engine' \in { n \in ThreadEngines : n.name # engine.name }
    /\ start_time' = start_time + 10
    /\ timeout_limit' \in TimeoutLimits
    /\ params' = ParamsOf(query, params.category,
                          [max_redirects |-> params.max_redirects,
                           soft_max_redirects |-> params.soft_max_redirects])
    /\ pc' = "idle"
    /\ heap' = InitialHeap
    /\ exc' = ""
    /\ raised_by' = ""
    /\ calls' = [request |-> 0, transport |-> 0, response |-> 0, extend |-> 0,
                 handle_exception |-> 0]
    /\ incidents' = << >>
    /\ suspended' = FALSE
    /\ nested' = << >>
    /\ container' = << >>
    /\ request' = NoRequest
    /\ UNCHANGED << settings, query, search_query, thread, plugin, level, search_results,
                    sitelink_params, sitelink_results, response, site, hit >>

NextThread == Next \/ next_invocation

SpecThread == InitThread /\ [][NextThread]_vars

(***************************************************************************)
(* The tracker_url_remover plugin alone: on_result over the results.       *)
(***************************************************************************)
\* SXNGPlugin.on_result
on_result ==
    /\ returned = << >>
    /\ result' = _clear_trackers(
                     [result EXCEPT !.sitelinks = [i \in DOMAIN @ |-> _clear_trackers(@[i])]])
    /\ returned' = << TRUE >>
    /\ UNCHANGED processor

InitPlugin ==
    /\ settings = [force_sitelinks_categories |-> { }, force_sitelink_websites |-> << >>]
    /\ query = << "s" >>
    /\ search_query = NoLocale
    /\ params = ParamsOf(query, "general", [max_redirects |-> 1, soft_max_redirects |-> << >>])
    /\ engine = PlainEngine
    /\ start_time = 10
    /\ timeout_limit = 3
    /\ invocation = 1
    /\ thread = FreshThread
    /\ Idle
    /\ result \in PluginResults
    /\ returned = << >>

SpecPlugin == InitPlugin /\ [][on_result]_vars

(***************************************************************************)
(* get_params alone, over the locales and the engine's option.             *)
(***************************************************************************)
InitGetParams ==
    /\ settings = [force_sitelinks_categories |-> { }, force_sitelink_websites |-> << >>]
    /\ query \in Queries
    /\ search_query \in [query : { query }, locale : Locales]
    /\ engine \in { [PlainEngine EXCEPT !.send_accept_language_header = b] : b \in BOOLEAN }
    /\ start_time = 10
    /\ timeout_limit = 3
    /\ invocation = 1
    /\ thread = FreshThread
    /\ params = NoParams
    /\ pc = "new"
    /\ heap = [o \in Objects |-> NoHeaders]
    /\ Quiet
    /\ PluginIdle

SpecGetParams == InitGetParams /\ [][get_params]_vars

(***************************************************************************)
(* Properties.                                                             *)
(***************************************************************************)
IsHandled(i) == i.source = "handle_exception"
IsSecondary(i) == i.secondary

\* what extend_container merged so far holds no result
NothingMerged == \A k \in DOMAIN container : container[k].isNone \/ container[k].list = << >>

\* engine.request of the primary search returned and left params["url"] empty
PrimaryUrlLeftEmpty ==
    /\ calls.request >= 1
    /\ params.url = << >>
    /\ raised_by # "engine.request"

\* C1: when engine.request leaves params["url"] empty, whatever the
\* force-sitelink configuration, the transport is never called, the
\* invocation yields zero results and no error is recorded (with a result
\* container that does not fail).
C1_EmptyUrlNoDispatchNoError ==
    (PrimaryUrlLeftEmpty /\ raised_by # "extend_container") =>
        /\ calls.transport = 0
        /\ NothingMerged
        /\ exc = ""
        /\ calls.handle_exception = 0
        /\ incidents = << >>

\* the exceptions the claim C2 says suspend the engine
SuspendingExceptions ==
    { "ssl.SSLCertVerificationError",
      "httpx.ConnectTimeout", "asyncio.TimeoutError",
      "httpx.HTTPStatusError", "httpx.StreamClosed",
      "SearxEngineCaptchaException", "SearxEngineTooManyRequestsException",
      "SearxEngineAccessDeniedException" }

\* C2: for every exception raised inside a search invocation,
\* handle_exception is called exactly once, with suspend=True if and only
\* if the exception is a TLS error, a timeout, an httpx transport / stream
\* error or a captcha / too-many-requests / access-denied exception.
C2_HandledOnceSuspendIffClassified ==
    /\ (exc # "" /\ pc # "except") =>
          /\ calls.handle_exception = 1
          /\ Len(SelectSeq(incidents, IsHandled)) = 1
          /\ SelectSeq(incidents, IsHandled)[1].exception = exc
          /\ SelectSeq(incidents, IsHandled)[1].suspend = (exc \in SuspendingExceptions)
          /\ suspended = (exc \in SuspendingExceptions)
    /\ (exc = "" \/ pc = "except") =>
          /\ calls.handle_exception = 0
          /\ ~suspended

\* a timeout of the transport during a nested search was handled and suspends
C2_Witness ==
    /\ pc = "done"
    /\ exc = "httpx.ConnectTimeout"
    /\ raised_by = "transport"
    /\ Len(nested) = 1
    /\ calls.handle_exception = 1
    /\ suspended

\* C3: a search whose params["category"] is "sitelinks" performs no nested
\* search, for every force-sitelink configuration.
C3_NoNestedSearchInSitelinksCategory ==
    params.category = "sitelinks" => nested = << >>

\* what the claim C4 says the sitelinks of a nested result sequence S are
HasUrlValue(r) == r.url # NoneVal /\ r.url # Missing
ClaimedSitelinks(S) == SelectSeq(IF S = << >> THEN << >> ELSE Tail(S), HasUrlValue)

\* C4: the sitelinks attached to the matched result are the nested result
\* sequence without its first element and without the elements that lack a
\* url, in their original order; they replace the sitelinks the result had,
\* and nothing else of the results changes.
C4_SitelinksAreFilteredTail ==
    [][ (pc = "postprocess" /\ ~sitelink_results.isNone) =>
          /\ ~search_results'.isNone
          /\ Len(search_results'.list) = Len(search_results.list)
          /\ search_results'.list[hit].sitelinks = ClaimedSitelinks(sitelink_results.list)
          /\ search_results'.list[hit].url = search_results.list[hit].url
          /\ search_results'.list[hit].id = search_results.list[hit].id
          /\ \A k \in DOMAIN search_results.list :
                k # hit => search_results'.list[k] = search_results.list[k] ]_vars

\* the result that had a sitelink of its own now has exactly one, the
\* last result of a nested search
C4_Witness ==
    /\ pc = "enrich"
    /\ nested # << >>
    /\ nested[Len(nested)].done
    /\ \E k \in DOMAIN search_results.list :
          /\ search_results.list[k].id = 1
          /\ search_results.list[k].sitelinks =
                << [id |-> 7, url |-> << "a", "x" >>, sitelinks |-> << >>] >>

\* the site's expression matches the url of result r
ClaimedMatch(s, r) == HasUrlValue(r) /\ re_match(s.website_url_expression, r.url)

OriginalResult(r) == CHOOSE o \in PrimaryResults : o.id = r.id

\* C5: for each site that is not skipped only the first result whose url
\* matches the site's expression is enriched, by at most one nested search
\* per site, whose query is "<original query> <first search term>" and whose
\* category is "sitelinks".
C5_FirstMatchOneNestedSearchPerSite ==
    /\ \A k \in DOMAIN nested :
          LET n == nested[k]
              s == settings.force_sitelink_websites[n.site]
          IN  /\ n.query = query \o << " " >> \o s.website_search_terms[1]
              /\ n.category = "sitelinks"
              /\ \A m \in DOMAIN nested : nested[m].site = n.site => m = k
              /\ ~search_results.isNone =>
                    /\ n.hit \in DOMAIN search_results.list
                    /\ ClaimedMatch(s, search_results.list[n.hit])
                    /\ \A i \in 1 .. (n.hit - 1) : ~ClaimedMatch(s, search_results.list[i])
    /\ ~search_results.isNone =>
          \A i \in DOMAIN search_results.list :
              (\A k \in DOMAIN nested : nested[k].hit # i \/ ~nested[k].done) =>
                  search_results.list[i] = OriginalResult(search_results.list[i])
    /\ (pc = "extend" /\ ~search_results.isNone /\ ForceSitelinks) =>
          \A i \in DOMAIN settings.force_sitelink_websites :
              LET s == settings.force_sitelink_websites[i]
              IN  (/\ ~SiteSkipped(s, params)
                   /\ \E j \in DOMAIN search_results.list :
                          ClaimedMatch(s, search_results.list[j])) =>
                      \E k \in DOMAIN nested : nested[k].site = i /\ nested[k].done

\* two sites each ran their nested search, on different results, and the
\* first site's expression matches both results
C5_Witness ==
    /\ Len(nested) = 2
    /\ nested[2].done
    /\ nested[1].hit = 1
    /\ nested[2].hit = 2
    /\ ~search_results.isNone
    /\ Len(search_results.list) = 2
    /\ \A i \in 1 .. 2 :
          ClaimedMatch(settings.force_sitelink_websites[nested[1].site], search_results.list[i])

\* C6: when a dispatch receives a response whose redirect history is longer
\* than soft_max_redirects, an incident with secondary=True is recorded, the
\* response is returned and handed to engine.response, nothing is raised and
\* the engine is not suspended.
C6_SoftLimitIsRecordedNotFatal ==
    [][ /\ (pc = "send" /\ response' # << >> /\
            response'[1].history > soft_max_redirects(Current)) =>
              /\ Len(incidents') = Len(incidents) + 1
              /\ incidents'[Len(incidents')].secondary
              /\ incidents'[Len(incidents')].source = "count_error"
              /\ pc' = "parse"
              /\ exc' = ""
              /\ calls'.handle_exception = 0
              /\ ~suspended'
        /\ (pc = "parse") =>
              /\ response # << >>
              /\ calls'.response = calls.response + 1 ]_vars

\* a search with a soft-limit incident ended with its results merged, no
\* exception and no suspension
C6_Witness ==
    /\ pc = "done"
    /\ exc = ""
    /\ incidents # << >>
    /\ incidents[1].secondary
    /\ calls.response >= 1
    /\ Len(container) = 1
    /\ ~container[1].isNone
    /\ ~suspended

\* C7 as stated: the container is extended exactly once in every
\* invocation, after enrichment or after the exception handler.
C7_ExtendedExactlyOnce ==
    pc = "done" => calls.extend = 1

\* C7 as amended: the container is extended at most once: exactly once,
\* after enrichment completed, when nothing raised; never once an exception
\* was raised (the exception handler does not extend the container).
C7_ExtendedOnceUnlessFailed ==
    /\ calls.extend <= 1
    /\ Len(container) <= calls.extend
    /\ (pc = "done" /\ exc = "") => (calls.extend = 1 /\ Len(container) = 1)
    /\ calls.extend = 1 =>
          /\ pc \in { "done", "except" }
          /\ \A k \in DOMAIN nested : nested[k].done
          /\ exc # "" => raised_by = "extend_container"
    /\ (exc # "" /\ raised_by # "extend_container") =>
          (calls.extend = 0 /\ container = << >>)

\* an invocation that failed in a nested search ended without extending
C7_Witness ==
    /\ pc = "done"
    /\ exc # ""
    /\ calls.handle_exception = 1
    /\ nested # << >>
    /\ calls.extend = 0
    /\ container = << >>

\* C8: no exception raised during the search flow leaves search: each is
\* caught by an except clause and becomes a handle_exception call.
C8_NothingPropagates ==
    /\ pc # "propagated"
    /\ exc # "" => pc \in { "except", "done" }
    /\ (exc # "" /\ pc = "done") => calls.handle_exception = 1

\* an exception none of the specific clauses names was raised by the
\* parser of a nested search and was handled
C8_Witness ==
    /\ pc = "done"
    /\ exc = "KeyError"
    /\ raised_by = "engine.response"
    /\ nested # << >>
    /\ calls.handle_exception = 1

\* C9 as stated: an invocation that ends in the exception handler has
\* recorded exactly one incident, soft-redirect incidents included.
C9_OneIncidentPerFailedInvocation ==
    (pc = "done" /\ exc # "") => Len(incidents) = 1

\* C9 as amended: an invocation that ends in the exception handler has
\* recorded exactly one incident that is not secondary, the last one, made
\* by handle_exception; the others are secondary soft-redirect incidents,
\* at most one per dispatch.
C9_OneHandledIncidentPerFailedInvocation ==
    (pc = "done" /\ exc # "") =>
        /\ incidents # << >>
        /\ IsHandled(incidents[Len(incidents)])
        /\ ~IsSecondary(incidents[Len(incidents)])
        /\ incidents[Len(incidents)].exception = exc
        /\ \A k \in 1 .. (Len(incidents) - 1) :
              IsSecondary(incidents[k]) /\ ~IsHandled(incidents[k])
        /\ Len(incidents) - 1 <= calls.transport

\* a failed invocation with two incidents: a soft-redirect one and the
\* handled one
C9_Witness ==
    /\ pc = "done"
    /\ exc # ""
    /\ Len(incidents) = 2
    /\ IsSecondary(incidents[1])
    /\ IsHandled(incidents[2])

\* C10: when the nested search yields zero results (an empty sequence, or
\* None because the engine left the url empty), post-processing does not
\* fail and the matched result's sitelinks are empty.
C10_EmptyNestedSearchDoesNotFail ==
    [][ (pc = "postprocess" /\
         (sitelink_results.isNone \/ sitelink_results.list = << >>)) =>
            /\ pc' = "enrich"
            /\ exc' = ""
            /\ incidents' = incidents
            /\ search_results'.list[hit].sitelinks = << >> ]_vars

\* get_params returned params
Built == pc = "idle" /\ params # NoParams

\* the locale of the query get_params was given carries a language (and a
\* territory, or none)
HasLocale == search_query.locale # << >>

\* the Accept-Language header of the params
AcceptLanguage == heap[params.headers]["Accept-Language"]

\* what the claim gives for a locale
ClaimedAcceptLanguage(locale) ==
    IF locale.territory # NoneVal
    THEN locale.language \o << "-" >> \o locale.territory \o << "," >> \o locale.language
         \o << ";", "q", "=", "0", ".", "9", ",", "*", ";", "q", "=", "0", ".", "5" >>
    ELSE locale.language

\* C11 as stated: whenever get_params built params for a query whose locale
\* has a language and a territory, the Accept-Language header is
\* "<lang>-<territory>,<lang>;q=0.9,*;q=0.5", and "<lang>" when the locale
\* has a language only.
C11_AcceptLanguageFromLocale ==
    (Built /\ HasLocale) => AcceptLanguage = ClaimedAcceptLanguage(Head(search_query.locale))

\* C11, amended: the header has that value when the engine has
\* send_accept_language_header set; when it has not, or the query has no
\* locale, get_params sets no Accept-Language header.
C11_AcceptLanguageWhenEngineOptsIn ==
    Built =>
        IF engine.send_accept_language_header /\ HasLocale
        THEN AcceptLanguage = ClaimedAcceptLanguage(Head(search_query.locale))
        ELSE AcceptLanguage = Missing

C11_Witness ==
    /\ Built
    /\ engine.send_accept_language_header
    /\ HasLocale
    /\ Head(search_query.locale).territory # NoneVal
    /\ AcceptLanguage = << "f", "r", "-", "C", "A", ",", "f", "r", ";", "q", "=", "0", ".", "9",
                           ",", "*", ";", "q", "=", "0", ".", "5" >>

\* the bodies of the last transport call
PassedBodies == { b \in { "data", "json", "content" } : request[b] # Missing }

\* the first non-empty body of p in the order data, json, content
FirstNonEmptyBody(p) ==
    IF p.data # << >> THEN { "data" }
    ELSE IF p.json # << >> THEN { "json" }
    ELSE IF p.content # << >> THEN { "content" }
    ELSE { }

\* C12 as stated: a POST passes at most one body to the transport, the first
\* non-empty one of data, json, content in that order; a GET passes none.
C12_OneBodyByPrecedence ==
    [][pc = "send" =>
          PassedBodies' = IF Current.method = "GET" THEN { } ELSE FirstNonEmptyBody(Current)]_vars

\* C12, amended: a POST passes every non-empty one of data, json and content
\* to the transport, each with its own value, and no empty one; a GET passes
\* none.
C12_EveryNonEmptyBody ==
    [][pc = "send" =>
          /\ request'.req = (IF Current.method = "GET" THEN "get" ELSE "post")
          /\ \A b \in { "data", "json", "content" } :
                request'[b] = IF Current.method # "GET" /\ Current[b] # << >>
                              THEN Current[b] ELSE Missing]_vars

C12_Witness ==
    /\ request.req = "post"
    /\ PassedBodies = { "data", "json", "content" }
    /\ pc = "parse"

\* the original params with what its "headers" refers to
DeepParams == [params EXCEPT !.headers = heap[params.headers]]

\* the primary engine.request has returned and search() has not
AfterPrimaryRequest ==
    /\ pc \in { "request", "send", "parse", "enrich", "postprocess", "extend" }
    /\ ~ (pc = "request" /\ level = "primary")

\* C13: once the primary engine.request has returned, no step of the
\* invocation changes the original params: its query, category, url, body
\* fields and the contents of its headers stay as they are, whatever
\* engine.request does to the params of a nested search.
C13_OriginalParamsUntouched ==
    [][AfterPrimaryRequest => DeepParams' = DeepParams]_vars

\* search() is running: from its call of init_network_in_thread to its return
Running == pc \in { "request", "send", "parse", "enrich", "postprocess", "extend", "except" }

\* C14: while an invocation runs, from before its first engine.request on
\* and so during every dispatch, primary or nested, the network name of the
\* thread is the engine of this invocation and the deadline is the one of
\* this invocation's start_time and timeout_limit; the elapsed time starts
\* from zero, whatever an earlier invocation left on the thread.
C14_ThreadStateIsThisInvocations ==
    Running =>
        /\ thread.network = engine.name
        /\ thread.timeout = timeout_limit
        /\ thread.start_time = start_time
        /\ calls.transport = 0 => thread.total_time = 0

C14_Witness ==
    /\ invocation = 2
    /\ pc = "send"
    /\ level = "nested"
    /\ thread.network = "e2"
    /\ thread.timeout = 5
    /\ thread.total_time = 1

\* N: the number of configured force-sitelink sites
NumberOfSites == Len(settings.force_sitelink_websites)

\* the sites the loop of _add_forced_sitelinks has not finished with
SitesLeft == NumberOfSites + 1 - site

\* an upper bound of the number of steps the invocation has left
StepsLeft ==
    CASE pc = "idle" -> 5 * NumberOfSites + 14
      [] pc = "request" /\ level = "primary" -> 5 * NumberOfSites + 13
      [] pc = "send" /\ level = "primary" -> 5 * NumberOfSites + 12
      [] pc = "parse" /\ level = "primary" -> 5 * NumberOfSites + 11
      [] pc = "enrich" -> 5 * SitesLeft + 10
      [] pc = "request" /\ level = "nested" -> 5 * SitesLeft + 9
      [] pc = "send" /\ level = "nested" -> 5 * SitesLeft + 8
      [] pc = "parse" /\ level = "nested" -> 5 * SitesLeft + 7
      [] pc = "postprocess" -> 5 * SitesLeft + 6
      [] pc = "extend" -> 3
      [] pc = "except" -> 2
      [] OTHER -> 0

\* C15: every step of an invocation brings it nearer to its end, the
\* transport is called at most 1 + N times, the nested searches are started
\* one at a time for sites in increasing order, and a nested search only
\* requests, sends, parses and is post-processed: it never enters the
\* enrichment of _add_forced_sitelinks.
C15_AtMostOnePlusNDispatches ==
    [][/\ StepsLeft' < StepsLeft
       /\ StepsLeft' >= 0
       /\ calls'.transport <= 1 + NumberOfSites
       /\ Len(nested') <= NumberOfSites
       /\ \A i, j \in DOMAIN nested' : i < j => nested'[i].site < nested'[j].site
       /\ \A i \in DOMAIN nested' : ~ nested'[i].done => i = Len(nested')
       /\ level' = "nested" => pc' \in { "request", "send", "parse", "postprocess" }]_vars

C15_Witness ==
    /\ pc = "done"
    /\ NumberOfSites = 2
    /\ calls.transport = 3
    /\ Len(nested) = 2

\* the original query contains one of the search terms of site s
QueryHasTermOf(s) ==
    \E k \in DOMAIN s.website_search_terms : Contains(query, s.website_search_terms[k])

\* site s is to get a nested search: its category is enabled and the primary
\* results, all with a url or without the key, hold one that matches
ToBeEnriched(s) ==
    /\ params.category \in settings.force_sitelinks_categories
    /\ ~ search_results.isNone
    /\ \A i \in DOMAIN search_results.list : search_results.list[i].url # NoneVal
    /\ \E i \in DOMAIN search_results.list : ClaimedMatch(s, search_results.list[i])

\* C16: when the loop of _add_forced_sitelinks is at a site one of whose
\* search terms the original query contains, it moves to the next site
\* without a nested search and without touching a result; at any other site
\* that is to be enriched it starts the nested search for the original query
\* followed by that site's first term, whatever sites were skipped or
\* searched before it; no nested search is ever logged for a site whose
\* term the query contains.
C16_SiteWithTermInQuerySkipped ==
    [][(pc = "enrich" /\ site <= NumberOfSites) =>
          LET s == settings.force_sitelink_websites[site]
          IN  /\ QueryHasTermOf(s) =>
                    /\ pc' = "enrich"
                    /\ site' = site + 1
                    /\ UNCHANGED << search_results, nested, calls, level >>
              /\ (~ QueryHasTermOf(s) /\ ToBeEnriched(s)) =>
                    /\ pc' = "request"
                    /\ level' = "nested"
                    /\ site' = site
                    /\ sitelink_params'.query = query \o << " " >> \o s.website_search_terms[1]
                    /\ nested'[Len(nested')].site = site
              /\ \A i \in DOMAIN nested' :
                    ~ QueryHasTermOf(settings.force_sitelink_websites[nested'[i].site])]_vars

\* the query "s w" holds a term of the first site, SiteB, and none of the
\* second, SiteA: the only nested search is the one of SiteA
C16_Witness ==
    /\ pc = "done"
    /\ exc = ""
    /\ settings.force_sitelink_websites = << SiteB, SiteA >>
    /\ QueryHasTermOf(SiteB)
    /\ Len(nested) = 1
    /\ nested[1].site = 2
    /\ nested[1].query = << "s", " ", "w", " ", "z" >>
    /\ nested[1].done

\* an exception was raised after the primary search had returned its results:
\* by the enrichment, a nested search or extend_container
FailedAfterPrimaryResults ==
    /\ exc # ""
    /\ \/ calls.response >= 2
       \/ calls.response = 1 /\ raised_by # "engine.response"

\* C17: once an exception was raised in an invocation, nothing is merged
\* into the result container, also when the primary search had already
\* returned its results; such a late failure is handled once, and it
\* suspends the engine exactly when its class is one of those that suspend
\* it on a failure of the primary dispatch.
C17_FailedInvocationMergesNothing ==
    /\ exc # "" => container = << >>
    /\ (FailedAfterPrimaryResults /\ pc = "done") =>
          /\ calls.extend <= 1
          /\ Len(SelectSeq(incidents, IsHandled)) = 1
          /\ incidents[Len(incidents)].exception = exc
          /\ incidents[Len(incidents)].suspend = (exc \in SuspendingExceptions)
          /\ suspended = (exc \in SuspendingExceptions)

\* the parser raised KeyError on the response of a nested search
C17_Witness ==
    /\ pc = "done"
    /\ exc = "KeyError"
    /\ raised_by = "engine.response"
    /\ calls.response = 2
    /\ Len(nested) = 1
    /\ container = << >>
    /\ ~ suspended

\* the parameters of a URL's query, in order, each with its name and its
\* value, blank or not
QueryParameters(parsed_url) ==
    LET pieces == SelectSeq(Split(parsed_url.query, "&"), LAMBDA piece : piece # << >>)
    IN  [i \in DOMAIN pieces |->
            << unquote_plus(NameValue(pieces[i])[1]), unquote_plus(NameValue(pieces[i])[2]) >>]

NotTracker(name_value) == ~ MatchesTracker(name_value[1])

\* a result or sitelink without its sitelinks
UrlsOf(res) == [parsed_url |-> res.parsed_url, url |-> res.url]

\* what the claim C18 says of one result or sitelink, before and after
Cleaned(before, after) ==
    IF before.parsed_url = << >> THEN after = before
    ELSE LET was == QueryParameters(Head(before.parsed_url))
             is == QueryParameters(Head(after.parsed_url))
         IN  /\ after.parsed_url # << >>
             /\ after.url = urlunparse(Head(after.parsed_url))
             /\ \A i \in DOMAIN is : NotTracker(is[i])
             /\ is = SelectSeq(was, NotTracker)
             /\ (\A i \in DOMAIN was : NotTracker(was[i])) => after = before

\* C18: on_result returns True, and of the main result and of each of its
\* sitelinks: afterwards no parameter of the URL's query has a name that
\* matches a tracker pattern, the other parameters are all there with their
\* values in their order, and a result with no parsed URL or with no tracker
\* parameter is as it was.
C18_TrackersRemovedOthersKept ==
    [][(returned = << >> /\ returned' # << >>) =>
          /\ returned' = << TRUE >>
          /\ Cleaned(UrlsOf(result), UrlsOf(result'))
          /\ Len(result'.sitelinks) = Len(result.sitelinks)
          /\ \A i \in DOMAIN result.sitelinks :
                Cleaned(result.sitelinks[i], result'.sitelinks[i])]_vars

====
